---- MODULE Spec2Model ----
(***************************************************************************)
(* Model of backend/app.py of the Legal-Assistant-ChatBot: the module      *)
(* level data loading, find_relevant_clause and the /chat handler.         *)
(*                                                                         *)
(* A Python string is a sequence of symbols.  Each fixed literal of the   *)
(* code is one symbol; data (queries, cells, exception messages, model    *)
(* output) are sequences of one-character symbols.  Concatenation and     *)
(* f-string formatting are \o, the empty string is << >>.                 *)
(***************************************************************************)
EXTENDS Integers, Sequences, FiniteSets, TLC

VARIABLES
    phase,            \* "loading" | "serving" | "crashed" (exception out of module import)
    dataDir,          \* filesystem: "absent" | "dir" | "unlistable"
    indexFile,        \* filesystem: data/index.csv
    constFile,        \* filesystem: data/Constitution Of India.csv
    index_df,         \* module global index_df
    constitution_df,  \* module global constitution_df
    groq_api_key,     \* os.getenv("GROQ_API_KEY"): None, "" or a key
    pc,               \* position of the request in chat()
    body,             \* the request body
    user_input,       \* local user_input of chat() / argument query of find_relevant_clause
    context,          \* outcome of find_relevant_clause: [raised, value]
    retFault,         \* exception raised inside the try block of find_relevant_clause, if any
    upstream,         \* outcome of ChatGroq(...) and model.invoke(prompt)
    response,         \* what the HTTP layer sends back
    calls             \* the collaborators called while serving the request, in order

vars == <<phase, dataDir, indexFile, constFile, index_df, constitution_df,
          groq_api_key, pc, body, user_input, context, retFault, upstream,
          response, calls>>

-----------------------------------------------------------------------------
(* Bounds *)

MaxRows == 4          \* rows of a Content table handed to find_relevant_clause
MaxSysRows == 1       \* rows of a Content table file in the whole-system specification
MaxIndexRows == 1     \* rows of a Heading table
MaxQueryLen == 2      \* symbols of a query

-----------------------------------------------------------------------------
(* Strings *)

Min(a, b) == IF a < b THEN a ELSE b

SeqsUpTo(S, n) == UNION {[1..k -> S] : k \in 0..n}

\* s[i..] starts with t
StartsAt(s, t, i) ==
    /\ i + Len(t) - 1 <= Len(s)
    /\ \A k \in 1..Len(t) : s[i + k - 1] = t[k]

\* Python: t in s
Contains(s, t) == \E i \in 1..(Len(s) + 1) : StartsAt(s, t, i)

\* Python: sep.join(list)
RECURSIVE Join(_, _)
Join(sep, list) ==
    IF Len(list) = 0 THEN << >>
    ELSE IF Len(list) = 1 THEN list[1]
    ELSE list[1] \o sep \o Join(sep, Tail(list))

\* The literals of find_relevant_clause
L_Unavailable == <<"Constitutional database not available - using general knowledge.">>
L_Context == <<"Constitutional context:">>
L_NoData == <<"No constitutional data available.">>
L_RetrieveError == <<"Error retrieving legal data: ">>
NL == <<"\n">>

\* The literals of chat
L_ValidQuestion == <<"Please enter a valid question.">>
L_ConfigError == <<"Service configuration error. Please check API key.">>
L_Apology == <<"I'm experiencing technical difficulties. Please try again in a moment.">>

-----------------------------------------------------------------------------
(* Tables (pandas DataFrame) *)

\* A cell is missing (NaN) or holds a non-empty text
NaN == [na |-> TRUE, v |-> << >>]
Val(s) == [na |-> FALSE, v |-> s]

\* pd.DataFrame()
EmptyDF == [columns |-> << >>, rows |-> << >>]

\* DataFrame.empty: an axis of length 0
IsEmpty(df) == Len(df.columns) = 0 \/ Len(df.rows) = 0

\* df.iloc[:n]
ILoc(df, n) == [columns |-> df.columns, rows |-> SubSeq(df.rows, 1, Min(n, Len(df.rows)))]

\* "name" in df.columns
HasColumn(df, name) == \E i \in 1..Len(df.columns) : df.columns[i] = name

ColumnIndex(df, name) == CHOOSE i \in 1..Len(df.columns) : df.columns[i] = name

\* df[name] and df.iloc[:, 0] as the list of the column's cells
ColumnAt(df, i) == [r \in 1..Len(df.rows) |-> df.rows[r][i]]

\* Series.dropna().tolist()
DropNa(cells) == SelectSeq(cells, LAMBDA c : ~c.na)

\* str(content) of a non-missing text cell
Str(c) == c.v

-----------------------------------------------------------------------------
(* Optional values: None or a string *)

None == [set |-> FALSE, v |-> << >>]
Some(s) == [set |-> TRUE, v |-> s]

\* Python truthiness of None / str
Truthy_NotNone(o) == o.set

Truthy(o) == o.set /\ Len(o.v) > 0

-----------------------------------------------------------------------------
(* Input sets *)

Chars == {"a", "b"}
Queries == SeqsUpTo(Chars, MaxQueryLen)
CellTexts == {<<"x">>, <<"y">>}
Cells == {NaN} \cup {Val(t) : t \in CellTexts}
ErrMsgs == {<< >>, <<"e">>}
ModelTexts == {<< >>, <<"t">>}

\* index.csv: one heading column
HeadingTexts == {<<"a">>, <<"b", "a">>}
HeadingCells == {NaN} \cup {Val(h) : h \in HeadingTexts}
IndexTables ==
    {[columns |-> <<"Subject Mentioned in the Part">>, rows |-> rs] :
        rs \in SeqsUpTo({<<c>> : c \in HeadingCells}, MaxIndexRows)}

\* Constitution Of India.csv: the "Articles" column alone, another column
\* alone, or a leading number column before "Articles"
ContentTablesUpTo(n) ==
    {[columns |-> <<"Articles">>, rows |-> rs] : rs \in SeqsUpTo({<<c>> : c \in Cells}, n)}
    \cup
    {[columns |-> <<"Text">>, rows |-> rs] : rs \in SeqsUpTo({<<c>> : c \in Cells}, n)}
    \cup
    {[columns |-> <<"No", "Articles">>, rows |-> rs] :
        rs \in SeqsUpTo({<<Val(<<"n">>), c>> : c \in Cells}, n)}

FileAbsent == [kind |-> "absent", table |-> EmptyDF]
FileBad == [kind |-> "error", table |-> EmptyDF]
FileOk(t) == [kind |-> "ok", table |-> t]

IndexFiles == {FileAbsent, FileBad} \cup {FileOk(t) : t \in IndexTables}
ContentFilesUpTo(n) == {FileAbsent, FileBad} \cup {FileOk(t) : t \in ContentTablesUpTo(n)}

DirStates == {"absent", "dir", "unlistable"}
EnvStates == {None, Some(<< >>), Some(<<"k">>)}

-----------------------------------------------------------------------------
(* Module-level data loading *)

\* pd.read_csv(path) of a readable file
ReadCsv(file) == file.table

\* The try block: the tables as assigned when the block ends, and whether it
\* ended by an exception
LoadTry(dir, idx, con) ==
    IF dir = "absent"
    THEN [exc |-> FALSE, index_df |-> EmptyDF, constitution_df |-> EmptyDF]
    ELSE IF dir = "unlistable" \/ idx.kind = "error"
    THEN [exc |-> TRUE, index_df |-> EmptyDF, constitution_df |-> EmptyDF]
    ELSE LET i == IF idx.kind = "ok" THEN ReadCsv(idx) ELSE EmptyDF
         IN  IF con.kind = "error"
             THEN [exc |-> TRUE, index_df |-> i, constitution_df |-> EmptyDF]
             ELSE [exc |-> FALSE, index_df |-> i,
                   constitution_df |-> IF con.kind = "ok" THEN ReadCsv(con) ELSE EmptyDF]

LoadExcept_Missing(r) == r

\* except Exception as e: print(...)
LoadExcept(r) == [r EXCEPT !.exc = FALSE]

LoadData(dir, idx, con) == LoadExcept(LoadTry(dir, idx, con))

-----------------------------------------------------------------------------
(* find_relevant_clause *)

NoFault == [raised |-> FALSE, msg |-> << >>]
Faults == {NoFault} \cup {[raised |-> TRUE, msg |-> m] : m \in ErrMsgs}

SampleRows == 3

ContentList_DropFirst(df) ==
    LET col == IF HasColumn(df, "Articles") THEN ColumnIndex(df, "Articles") ELSE 1
        kept == DropNa(ColumnAt(df, col))
    IN  SubSeq(kept, 1, Min(SampleRows, Len(kept)))

\* sample_content[...].dropna().tolist()
ContentList(df) ==
    LET sample_content == ILoc(df, SampleRows)
    IN  IF HasColumn(df, "Articles")
        THEN DropNa(ColumnAt(sample_content, ColumnIndex(df, "Articles")))
        ELSE DropNa(ColumnAt(sample_content, 1))

RetrieveTry_And(query, idf, cdf, fault) ==
    IF IsEmpty(idf) /\ IsEmpty(cdf)
    THEN [exc |-> FALSE, msg |-> << >>, value |-> L_Unavailable]
    ELSE IF fault.raised
    THEN [exc |-> TRUE, msg |-> fault.msg, value |-> << >>]
    ELSE LET content_list == ContentList(cdf)
             ctx == Join(NL \o NL, [i \in 1..Len(content_list) |-> Str(content_list[i])])
         IN  [exc |-> FALSE, msg |-> << >>, value |-> L_Context \o NL \o NL \o ctx]

RetrieveTry_Inverted(query, idf, cdf, fault) ==
    IF IsEmpty(idf) \/ IsEmpty(cdf)
    THEN [exc |-> FALSE, msg |-> << >>, value |-> L_Unavailable]
    ELSE [exc |-> FALSE, msg |-> << >>, value |-> L_NoData]

\* The try block; fault is what the pandas calls of lines 67-74 raise
RetrieveTry(query, idf, cdf, fault) ==
    IF IsEmpty(idf) \/ IsEmpty(cdf)
    THEN [exc |-> FALSE, msg |-> << >>, value |-> L_Unavailable]
    ELSE IF ~IsEmpty(cdf)
    THEN IF fault.raised
         THEN [exc |-> TRUE, msg |-> fault.msg, value |-> << >>]
         ELSE LET content_list == ContentList(cdf)
                  ctx == Join(NL \o NL, [i \in 1..Len(content_list) |-> Str(content_list[i])])
              IN  [exc |-> FALSE, msg |-> << >>, value |-> L_Context \o NL \o NL \o ctx]
    ELSE [exc |-> FALSE, msg |-> << >>, value |-> L_NoData]

RetrieveExcept_Reraise(r) == [raised |-> r.exc, value |-> r.value]

\* except Exception as e: return f"Error retrieving legal data: {str(e)}"
RetrieveExcept(r) ==
    IF r.exc
    THEN [raised |-> FALSE, value |-> L_RetrieveError \o r.msg]
    ELSE [raised |-> FALSE, value |-> r.value]

find_relevant_clause(query, idf, cdf, fault) ==
    RetrieveExcept(RetrieveTry(query, idf, cdf, fault))

-----------------------------------------------------------------------------
(* The /chat route *)

\* Request bodies: not parseable as JSON, JSON that is no object, an object
\* without "message", an object with a "message" string
Bodies ==
    {[kind |-> "malformed", has |-> FALSE, message |-> << >>],
     [kind |-> "non_object", has |-> FALSE, message |-> << >>],
     [kind |-> "object", has |-> FALSE, message |-> << >>]}
    \cup {[kind |-> "object", has |-> TRUE, message |-> q] : q \in Queries}

\* A POST with any body, or the cross-origin preflight
Requests ==
    {[method |-> "POST", kind |-> b.kind, has |-> b.has, message |-> b.message] :
        b \in Bodies}
    \cup {[method |-> "OPTIONS", kind |-> "malformed", has |-> FALSE, message |-> << >>]}

NoRequest == [method |-> "none", kind |-> "none", has |-> FALSE, message |-> << >>]
NoContext == [raised |-> FALSE, value |-> << >>]
NoUpstream == [kind |-> "none", text |-> << >>]
NoResponse == [status |-> 0, json |-> FALSE, response |-> << >>]

\* ChatGroq(...) raises, model.invoke(prompt) raises, or invoke returns a text
UpstreamOutcomes ==
    {[kind |-> "construct_raises", text |-> m] : m \in ErrMsgs}
    \cup {[kind |-> "invoke_raises", text |-> m] : m \in ErrMsgs}
    \cup {[kind |-> "ok", text |-> t] : t \in ModelTexts}

\* jsonify({"response": text}), status 200
Jsonify(text) == [status |-> 200, json |-> TRUE, response |-> text]

\* An exception that leaves chat(): the framework's error page
ErrorPage(code) == [status |-> code, json |-> FALSE, response |-> << >>]

\* request.json.get("message")
GetMessage(req) ==
    IF req.kind = "malformed" THEN [exc |-> TRUE, status |-> 400, value |-> None]
    ELSE IF req.kind = "non_object" THEN [exc |-> TRUE, status |-> 500, value |-> None]
    ELSE [exc |-> FALSE, status |-> 200,
          value |-> IF req.has THEN Some(req.message) ELSE None]

\* The try block of lines 105-134: the calls made, and the text returned or
\* the exception raised
GroqTry(up) ==
    IF up.kind = "construct_raises"
    THEN [exc |-> TRUE, msg |-> up.text, calls |-> <<"ChatGroq">>, text |-> << >>]
    ELSE IF up.kind = "invoke_raises"
    THEN [exc |-> TRUE, msg |-> up.text, calls |-> <<"ChatGroq", "invoke">>, text |-> << >>]
    ELSE [exc |-> FALSE, msg |-> << >>, calls |-> <<"ChatGroq", "invoke">>, text |-> up.text]

GroqExcept_Leak(r) ==
    IF r.exc THEN Jsonify(<<"Error: ">> \o r.msg) ELSE Jsonify(r.text)

\* return jsonify({"response": response.content}) / except Exception as e:
\* return jsonify({"response": "I'm experiencing technical difficulties. ..."})
GroqExcept(r) ==
    IF r.exc THEN Jsonify(L_Apology) ELSE Jsonify(r.text)

GenerateResult_NotNone(key, up) ==
    IF ~key.set
    THEN [calls |-> << >>, response |-> Jsonify(L_ConfigError)]
    ELSE LET r == GroqTry(up) IN [calls |-> r.calls, response |-> GroqExcept(r)]

\* Lines 99-138: the credential check, the model and the response
GenerateResult(key, up) ==
    IF ~Truthy(key)
    THEN [calls |-> << >>, response |-> Jsonify(L_ConfigError)]
    ELSE LET r == GroqTry(up) IN [calls |-> r.calls, response |-> GroqExcept(r)]

-----------------------------------------------------------------------------
(* Actions *)

TypeOK ==
    /\ phase \in {"loading", "serving", "crashed"}
    /\ dataDir \in DirStates
    /\ groq_api_key \in EnvStates
    /\ pc \in {"Idle", "Received", "Validated", "Retrieved", "Generated",
               "Responded", "Escaped"}
    /\ retFault \in Faults

Idle ==
    /\ pc = "Idle"
    /\ body = NoRequest
    /\ user_input = None
    /\ context = NoContext
    /\ retFault = NoFault
    /\ upstream = NoUpstream
    /\ response = NoResponse
    /\ calls = << >>

Init ==
    /\ phase = "loading"
    /\ dataDir \in DirStates
    /\ indexFile \in IndexFiles
    /\ constFile \in ContentFilesUpTo(MaxSysRows)
    /\ dataDir # "dir" => indexFile = FileAbsent /\ constFile = FileAbsent
    /\ index_df = EmptyDF
    /\ constitution_df = EmptyDF
    /\ groq_api_key \in EnvStates
    /\ Idle

\* Lines 14-54
Load ==
    /\ phase = "loading"
    /\ LET r == LoadData(dataDir, indexFile, constFile)
       IN  /\ phase' = IF r.exc THEN "crashed" ELSE "serving"
           /\ index_df' = r.index_df
           /\ constitution_df' = r.constitution_df
    /\ UNCHANGED <<dataDir, indexFile, constFile, groq_api_key, pc, body,
                   user_input, context, retFault, upstream, response, calls>>

\* A request reaches chat()
Receive(req) ==
    /\ phase = "serving"
    /\ pc = "Idle"
    /\ pc' = "Received"
    /\ body' = req
    /\ UNCHANGED <<phase, dataDir, indexFile, constFile, index_df, constitution_df,
                   groq_api_key, user_input, context, retFault, upstream,
                   response, calls>>

\* Lines 86-87
Preflight ==
    /\ pc = "Received"
    /\ body.method = "OPTIONS"
    /\ response' = [status |-> 200, json |-> FALSE, response |-> << >>]
    /\ pc' = "Responded"
    /\ UNCHANGED <<phase, dataDir, indexFile, constFile, index_df, constitution_df,
                   groq_api_key, body, user_input, context, retFault, upstream, calls>>

\* Line 89
Validate ==
    /\ pc = "Received"
    /\ body.method = "POST"
    /\ LET r == GetMessage(body)
       IN  IF r.exc
           THEN /\ pc' = "Escaped"
                /\ response' = ErrorPage(r.status)
                /\ UNCHANGED user_input
           ELSE /\ pc' = "Validated"
                /\ user_input' = r.value
                /\ UNCHANGED response
    /\ UNCHANGED <<phase, dataDir, indexFile, constFile, index_df, constitution_df,
                   groq_api_key, body, context, retFault, upstream, calls>>

\* Lines 90-91
RejectEmpty ==
    /\ pc = "Validated"
    /\ ~Truthy(user_input)
    /\ response' = Jsonify(L_ValidQuestion)
    /\ pc' = "Responded"
    /\ UNCHANGED <<phase, dataDir, indexFile, constFile, index_df, constitution_df,
                   groq_api_key, body, user_input, context, retFault, upstream, calls>>

Retrieve_Unvalidated(fault) ==
    /\ pc = "Validated"
    /\ retFault' = fault
    /\ context' = find_relevant_clause(user_input.v, index_df, constitution_df, fault)
    /\ calls' = Append(calls, "find_relevant_clause")
    /\ pc' = "Retrieved"
    /\ UNCHANGED <<phase, dataDir, indexFile, constFile, index_df, constitution_df,
                   groq_api_key, body, user_input, upstream, response>>

\* Line 96
Retrieve(fault) ==
    /\ pc = "Validated"
    /\ Truthy(user_input)
    /\ retFault' = fault
    /\ context' = find_relevant_clause(user_input.v, index_df, constitution_df, fault)
    /\ calls' = Append(calls, "find_relevant_clause")
    /\ IF context'.raised
       THEN pc' = "Escaped" /\ response' = ErrorPage(500)
       ELSE pc' = "Retrieved" /\ UNCHANGED response
    /\ UNCHANGED <<phase, dataDir, indexFile, constFile, index_df, constitution_df,
                   groq_api_key, body, user_input, upstream>>

\* Lines 99-138
Generate(up) ==
    /\ pc = "Retrieved"
    /\ upstream' = IF Truthy(groq_api_key) THEN up ELSE NoUpstream
    /\ LET r == GenerateResult(groq_api_key, up)
       IN  /\ calls' = calls \o r.calls
           /\ response' = r.response
           /\ pc' = IF r.response.status = 200 THEN "Generated" ELSE "Escaped"
    /\ UNCHANGED <<phase, dataDir, indexFile, constFile, index_df, constitution_df,
                   groq_api_key, body, user_input, context, retFault>>

\* The return of lines 103, 134, 138 reaches the HTTP layer
Respond ==
    /\ pc = "Generated"
    /\ pc' = "Responded"
    /\ UNCHANGED <<phase, dataDir, indexFile, constFile, index_df, constitution_df,
                   groq_api_key, body, user_input, context, retFault, upstream,
                   response, calls>>

\* The request is over; nothing of it is kept
Finish ==
    /\ pc \in {"Responded", "Escaped"}
    /\ pc' = "Idle"
    /\ body' = NoRequest
    /\ user_input' = None
    /\ context' = NoContext
    /\ retFault' = NoFault
    /\ upstream' = NoUpstream
    /\ response' = NoResponse
    /\ calls' = << >>
    /\ UNCHANGED <<phase, dataDir, indexFile, constFile, index_df, constitution_df,
                   groq_api_key>>

Next ==
    \/ Load
    \/ \E req \in Requests : Receive(req)
    \/ Preflight
    \/ Validate
    \/ RejectEmpty
    \/ \E fault \in Faults : Retrieve(fault)
    \/ \E up \in UpstreamOutcomes : Generate(up)
    \/ Respond
    \/ Finish

Spec == Init /\ [][Next]_vars

-----------------------------------------------------------------------------
(* find_relevant_clause on its own: every loadable pair of tables, every query *)

\* The file a table was read from
FileFor(t) == IF t = EmptyDF THEN FileAbsent ELSE FileOk(t)

InitRetrieve ==
    /\ phase = "serving"
    /\ dataDir = "dir"
    /\ index_df \in {EmptyDF} \cup IndexTables
    /\ constitution_df \in {EmptyDF} \cup ContentTablesUpTo(MaxRows)
    /\ indexFile = FileFor(index_df)
    /\ constFile = FileFor(constitution_df)
    /\ groq_api_key = None
    /\ Idle

\* find_relevant_clause(query)
CallRetrieve(query, fault) ==
    /\ phase = "serving"
    /\ pc = "Idle"
    /\ calls = << >>
    /\ user_input' = Some(query)
    /\ retFault' = fault
    /\ context' = find_relevant_clause(query, index_df, constitution_df, fault)
    /\ calls' = <<"find_relevant_clause">>
    /\ UNCHANGED <<phase, dataDir, indexFile, constFile, index_df, constitution_df,
                   groq_api_key, pc, body, upstream, response>>

NextRetrieve == \E query \in Queries, fault \in Faults : CallRetrieve(query, fault)

SpecRetrieve == InitRetrieve /\ [][NextRetrieve]_vars

-----------------------------------------------------------------------------
(* Properties *)

\* None or the empty string
IsBlank(o) == ~o.set \/ o.v = << >>

\* A POST request has been answered by the handler
Answered == pc = "Responded" /\ body.method = "POST"

\* find_relevant_clause has been called on its own and has returned
Called == pc = "Idle" /\ calls = <<"find_relevant_clause">>

BothLoaded == ~IsEmpty(index_df) /\ ~IsEmpty(constitution_df)

SEP == NL \o NL

\* C1: every POST /chat request ends in a 200 response with a {response}
\* body, whatever the body, the credential and the upstream outcome; no
\* exception reaches the HTTP layer.
C1_Always200 ==
    body.method = "POST" =>
        /\ pc # "Escaped"
        /\ pc = "Responded" => response.status = 200 /\ response.json

\* C2: find_relevant_clause returns a non-empty string and never raises.
C2_NonEmptyNeverRaises ==
    Called =>
        ~context.raised /\ Len(context.value) > 0

C2_Witness ==
    /\ Called
    /\ user_input = Some(<< >>)
    /\ BothLoaded
    /\ retFault.raised /\ retFault.msg = << >>
    /\ context.value = L_RetrieveError

\* C3: a request moves Received, Validated, Retrieved, Generated, Responded
\* in that order; the retriever is called only from Validated with a
\* non-empty message, the model only from Retrieved; Responded is entered
\* only from Validated with an empty message and no call made, or from
\* Generated, and there without a model text only when the key is missing
\* or the upstream call failed.
StageOrder ==
    {<<"Idle", "Received">>, <<"Received", "Validated">>,
     <<"Validated", "Retrieved">>, <<"Retrieved", "Generated">>,
     <<"Generated", "Responded">>, <<"Validated", "Responded">>}

C3_Step ==
    /\ (body'.method = "POST" /\ pc' # pc /\ pc' \notin {"Idle", "Escaped"})
          => <<pc, pc'>> \in StageOrder
    /\ (calls' # calls /\ pc' # "Idle") =>
          \/ /\ pc = "Validated" /\ pc' = "Retrieved"
             /\ ~IsBlank(user_input)
             /\ calls = << >>
             /\ calls' = <<"find_relevant_clause">>
          \/ /\ pc = "Retrieved" /\ pc' = "Generated"
             /\ ~IsBlank(groq_api_key)
             /\ calls = <<"find_relevant_clause">>
             /\ calls' \in {calls \o <<"ChatGroq">>, calls \o <<"ChatGroq", "invoke">>}
    /\ (body.method = "POST" /\ pc = "Validated" /\ pc' = "Responded")
          => IsBlank(user_input) /\ calls' = << >>
    /\ (pc = "Retrieved" /\ pc' = "Generated" /\ response'.response # upstream'.text)
          => IsBlank(groq_api_key) \/ upstream'.kind \in {"construct_raises", "invoke_raises"}
    /\ (pc = "Generated" /\ pc' = "Responded")
          => calls[1] = "find_relevant_clause" /\ response' = response

C3_StagesInOrder == [][C3_Step]_vars

C3_Witness ==
    /\ Answered
    /\ calls = <<"find_relevant_clause", "ChatGroq", "invoke">>
    /\ upstream.kind = "ok"
    /\ response.response = upstream.text

\* C4: with a non-empty message and a credential, an exception of the model
\* construction or invocation gives 200 with exactly the apology text, which
\* does not contain the exception's message.
C4_ApologyOnUpstreamFailure ==
    (/\ body.method = "POST"
     /\ pc \in {"Generated", "Responded", "Escaped"}
     /\ upstream.kind \in {"construct_raises", "invoke_raises"})
    =>  /\ pc # "Escaped"
        /\ response = [status |-> 200, json |-> TRUE, response |-> L_Apology]
        /\ upstream.text # << >> => ~Contains(response.response, upstream.text)

C4_Witness ==
    /\ Answered
    /\ ~IsBlank(user_input) /\ ~IsBlank(groq_api_key)
    /\ upstream = [kind |-> "invoke_raises", text |-> <<"e">>]
    /\ response.response = L_Apology

\* C5: with a non-empty message and GROQ_API_KEY absent or empty the answer
\* is 200 with the configuration-error text and the model is neither
\* constructed nor invoked.
C5_ConfigErrorWithoutKey ==
    (Answered /\ ~IsBlank(user_input) /\ IsBlank(groq_api_key))
    =>  /\ response = [status |-> 200, json |-> TRUE, response |-> L_ConfigError]
        /\ calls = <<"find_relevant_clause">>
        /\ upstream = NoUpstream

C5_Witness ==
    /\ Answered
    /\ ~IsBlank(user_input)
    /\ groq_api_key = Some(<< >>)
    /\ response.response = L_ConfigError

\* C6: with the message absent or empty the answer is 200 with the
\* valid-question text and neither the retriever nor the model is called,
\* whatever the credential.
C6_RejectEmptyMessage ==
    (Answered /\ (~body.has \/ body.message = << >>))
    =>  /\ response = [status |-> 200, json |-> TRUE, response |-> L_ValidQuestion]
        /\ calls = << >>
        /\ context = NoContext
        /\ upstream = NoUpstream

C6_Witness ==
    /\ Answered
    /\ body.has /\ body.message = << >>
    /\ ~IsBlank(groq_api_key)
    /\ response.response = L_ValidQuestion

-----------------------------------------------------------------------------
(* The similarity the fuzzy match of C7 refers to: the ratio of            *)
(* difflib.SequenceMatcher, 2*M/T with M the size of the matching blocks.  *)
(* app.py imports get_close_matches and never calls it.                   *)

\* Length of the common run of a from i and b from j
RECURSIVE RunLen(_, _, _, _)
RunLen(a, b, i, j) ==
    IF i > Len(a) \/ j > Len(b) \/ a[i] # b[j] THEN 0
    ELSE 1 + RunLen(a, b, i + 1, j + 1)

\* The longest matching block, the earliest in a and then in b
LongestMatch(a, b) ==
    LET best == CHOOSE p \in (1..Len(a)) \X (1..Len(b)) :
                    \A q \in (1..Len(a)) \X (1..Len(b)) :
                        \/ RunLen(a, b, p[1], p[2]) > RunLen(a, b, q[1], q[2])
                        \/ /\ RunLen(a, b, p[1], p[2]) = RunLen(a, b, q[1], q[2])
                           /\ \/ p[1] < q[1]
                              \/ p[1] = q[1] /\ p[2] <= q[2]
    IN  [i |-> best[1], j |-> best[2], k |-> RunLen(a, b, best[1], best[2])]

RECURSIVE Matches(_, _)
Matches(a, b) ==
    IF Len(a) = 0 \/ Len(b) = 0 THEN 0
    ELSE LET m == LongestMatch(a, b)
         IN  IF m.k = 0 THEN 0
             ELSE m.k
                  + Matches(SubSeq(a, 1, m.i - 1), SubSeq(b, 1, m.j - 1))
                  + Matches(SubSeq(a, m.i + m.k, Len(a)), SubSeq(b, m.j + m.k, Len(b)))

\* ratio(heading, query) >= 0.3
AboveCutoff(heading, query) ==
    20 * Matches(heading, query) >= 3 * (Len(heading) + Len(query))

\* The headings of the Heading table that match the query above the cutoff
MatchingHeadings(query) ==
    {index_df.rows[i][1].v : i \in {k \in 1..Len(index_df.rows) :
        /\ ~index_df.rows[k][1].na
        /\ AboveCutoff(index_df.rows[k][1].v, query)}}

L_Relevant == <<"Relevant constitutional context for ">>

C8_UnavailableWhenEmpty ==
    (Called /\ (IsEmpty(index_df) \/ IsEmpty(constitution_df)))
    => context = [raised |-> FALSE, value |-> L_Unavailable]

C8_Witness ==
    /\ Called
    /\ IsEmpty(index_df) /\ ~IsEmpty(constitution_df)
    /\ retFault.raised
    /\ context.value = L_Unavailable

\* C9: loading never lets a failure out, and once serving every table whose
\* file is absent (with or without the directory) or unreadable is empty.
C9_LoadAbsorbsFailures ==
    /\ phase # "crashed"
    /\ phase = "serving" =>
        /\ (dataDir # "dir" \/ indexFile.kind # "ok") => IsEmpty(index_df)
        /\ (dataDir # "dir" \/ constFile.kind # "ok") => IsEmpty(constitution_df)

C9_Witness ==
    /\ phase = "serving"
    /\ dataDir = "dir"
    /\ indexFile.kind = "ok" /\ ~IsEmpty(indexFile.table)
    /\ constFile.kind = "error"
    /\ index_df = indexFile.table
    /\ IsEmpty(constitution_df)

\* The column the content is read from
ContentColumn(df) ==
    IF \E i \in 1..Len(df.columns) : df.columns[i] = "Articles"
    THEN CHOOSE i \in 1..Len(df.columns) : df.columns[i] = "Articles"
    ELSE 1

\* The texts of the non-missing cells of rows lo..hi of column c, in order
RECURSIVE Present(_, _, _, _)
Present(df, c, lo, hi) ==
    IF lo > hi \/ lo > Len(df.rows) THEN << >>
    ELSE (IF df.rows[lo][c].na THEN << >> ELSE <<df.rows[lo][c].v>>)
         \o Present(df, c, lo + 1, hi)

\* The first n elements of a list
Take(list, n) == [i \in 1..(IF n < Len(list) THEN n ELSE Len(list)) |-> list[i]]

\* The result with the given content pieces
WithContent(pieces) == L_Context \o SEP \o Join(SEP, pieces)

\* C10 as stated: the content is the first 3 non-missing rows of the Content
\* table, later rows replacing missing leading ones.
C10_Original ==
    (Called /\ ~retFault.raised /\ BothLoaded)
    => context.value =
         WithContent(Take(Present(constitution_df, ContentColumn(constitution_df),
                                  1, Len(constitution_df.rows)), 3))

\* C10 amended: the content is the non-missing values among the first 3 rows
\* of the Content table, in table order, joined with a blank line; a missing
\* value among them is dropped and not replaced by a later row.
C10_FirstThreeRowsThenDrop ==
    (Called /\ ~retFault.raised /\ BothLoaded)
    => context.value =
         WithContent(Present(constitution_df, ContentColumn(constitution_df), 1, 3))

C10_Witness ==
    /\ Called /\ ~retFault.raised /\ BothLoaded
    /\ constitution_df.columns = <<"No", "Articles">>
    /\ Len(constitution_df.rows) = 4
    /\ constitution_df.rows[1][2].na
    /\ \A i \in 2..4 : ~constitution_df.rows[i][2].na
    /\ context.value = L_Context \o SEP \o constitution_df.rows[2][2].v
                          \o SEP \o constitution_df.rows[3][2].v

====
